---- MODULE Spec2Model ----
(***************************************************************************)
(* Content collections of the site: src/content/config.ts declares one zod *)
(* object schema (baseFields), wraps it in one collection definition (md)  *)
(* and binds five collection names to it (collections).  The site          *)
(* generator validates the YAML front-matter of every markdown file of a   *)
(* collection against collections[name].schema.                            *)
(*                                                                         *)
(* Values are the values a YAML front-matter block parses to, tagged with  *)
(* the type zod's getParsedType reports for them.  A schema is the tree of *)
(* zod constructors the source builds; Parse interprets that tree the way  *)
(* zod's _parse methods do.                                                *)
(***************************************************************************)
EXTENDS Integers, Sequences, FiniteSets, TLC

VARIABLES
    files,        \* the markdown files of the build: <<[collection, data]>>
    task,         \* per file: the position of its validation
    results,      \* per file: the outcome handed to the build, or NoResult
    defaultTags   \* the array literal `[]` of line 7, held by the ZodDefault

vars == <<files, task, results, defaultTags>>

----------------------------------------------------------------------------
(* Bounds *)

MaxTags == 2      \* longest `tags` array in a front-matter block
MaxDocs == 2      \* markdown files validated concurrently in one build

----------------------------------------------------------------------------
(* Parsed YAML values *)

Undefined == [type |-> "undefined", str |-> "", items |-> <<>>]
Null      == [type |-> "null", str |-> "", items |-> <<>>]
Str(s)    == [type |-> "string", str |-> s, items |-> <<>>]
Num(s)    == [type |-> "number", str |-> s, items |-> <<>>]
Date(s)   == [type |-> "date", str |-> s, items |-> <<>>]
Arr(xs)   == [type |-> "array", str |-> "", items |-> xs]

SeqsUpTo(S, n) == UNION {[1..k -> S] : k \in 0..n}

\* data[key] of a JavaScript object: undefined when the key is not there
Get(data, k) == IF k \in DOMAIN data THEN data[k] ELSE Undefined

\* the object literal that holds exactly the keys of t that carry a value
ObjectOf(t) == [k \in {x \in DOMAIN t : t[x] # Undefined} |-> t[k]]

EmptyObject == [k \in {} |-> Undefined]

----------------------------------------------------------------------------
(* zod constructors used by config.ts *)

ZString        == [kind |-> "string"]
ZOptional(s)   == [kind |-> "optional", innerType |-> s]
ZArray(s)      == [kind |-> "array", element |-> s]
ZDefault(s, d) == [kind |-> "default", innerType |-> s, defaultValue |-> d]

\* z.object(shape): unknown keys are stripped unless the schema says otherwise
ZObjectPassthrough(shape) == [kind |-> "object", shape |-> shape, unknownKeys |-> "passthrough"]
ZObject(shape) == [kind |-> "object", shape |-> shape, unknownKeys |-> "strip"]

InvalidType(expected, v) ==
    [index |-> 0, code |-> "invalid_type", expected |-> expected, received |-> v.type]

\* z.coerce.string(): String(value) of whatever is given
ParseStringCoerce(v) ==
    IF v.type = "undefined"
    THEN [value |-> Undefined, issues |-> {InvalidType("string", v)}]
    ELSE [value |-> Str(v.str), issues |-> {}]

\* z.string(): the value as it is when it is a string, no coercion
ParseString(v) ==
    IF v.type = "string"
    THEN [value |-> v, issues |-> {}]
    ELSE [value |-> Undefined, issues |-> {InvalidType("string", v)}]

\* ZodDefault with the default put in place of any value that is no array
DefaultInputCatch(schema, v) ==
    IF v.type # "array" THEN Arr(schema.defaultValue) ELSE v

\* ZodDefault: the default stands in for undefined, and for nothing else
DefaultInput(schema, v) ==
    IF v.type = "undefined" THEN Arr(schema.defaultValue) ELSE v

\* the array of parsed elements, last element first
mergeArrayReversed(values) ==
    Arr([i \in 1..Len(values) |-> values[Len(values) + 1 - i]])

\* ZodArray: the output is a new array of the parsed elements, in input order
mergeArray(values) == Arr(values)

RECURSIVE Parse(_, _)
Parse(schema, v) ==
    CASE schema.kind = "string" -> ParseString(v)
      [] schema.kind = "optional" ->
            IF v.type = "undefined"
            THEN [value |-> Undefined, issues |-> {}]
            ELSE Parse(schema.innerType, v)
      [] schema.kind = "default" ->
            Parse(schema.innerType, DefaultInput(schema, v))
      [] schema.kind = "array" ->
            IF v.type # "array"
            THEN [value |-> Undefined, issues |-> {InvalidType("array", v)}]
            ELSE LET rs == [i \in 1..Len(v.items) |-> Parse(schema.element, v.items[i])]
                 IN  [value  |-> mergeArray([i \in 1..Len(v.items) |-> rs[i].value]),
                      issues |-> UNION {{[s EXCEPT !.index = i] : s \in rs[i].issues}
                                            : i \in 1..Len(v.items)}]

\* an issue of a field's schema, with the field's name put in front of its path
AtField(k, issue) ==
    [field |-> k, index |-> issue.index, code |-> issue.code,
     expected |-> issue.expected, received |-> issue.received]


\* ZodObject's merge of the parsed pairs: a key of the shape is kept when it
\* has a value or was given; a key outside the shape is kept only by a
\* passthrough schema
mergeObject(schema, data, value) ==
    LET shapeKeys == {k \in DOMAIN schema.shape : value[k] # Undefined \/ k \in DOMAIN data}
        extraKeys == IF schema.unknownKeys = "passthrough"
                     THEN DOMAIN data \ DOMAIN schema.shape
                     ELSE {}
    IN  [k \in shapeKeys \cup extraKeys |->
            IF k \in DOMAIN schema.shape THEN value[k] ELSE data[k]]

\* an answer that keeps the fields that parsed and drops the issues
OutcomeLenient(value, issues) ==
    [status |-> "ok", data |-> value, issues |-> {}]

\* what safeParse answers for the merged value and the issues collected
Outcome(value, issues) ==
    IF issues = {}
    THEN [status |-> "ok", data |-> value, issues |-> {}]
    ELSE [status |-> "error", data |-> EmptyObject, issues |-> issues]

\* z.object(shape).safeParse(data): every key of the shape is parsed, the
\* issues of all of them are collected
safeParse(schema, data) ==
    LET shape  == schema.shape
        rs     == [k \in DOMAIN shape |-> Parse(shape[k], Get(data, k))]
        value  == [k \in DOMAIN shape |-> rs[k].value]
        issues == UNION {{AtField(k, i) : i \in rs[k].issues} : k \in DOMAIN shape}
    IN  Outcome(mergeObject(schema, data, value), issues)

----------------------------------------------------------------------------
(* src/content/config.ts *)

\* the shape with `tags` merely optional, no default
baseFieldsNoDefault ==
    [title     |-> ZString,
     date      |-> ZOptional(ZString),
     summary   |-> ZOptional(ZString),
     tags      |-> ZOptional(ZArray(ZString)),
     heroImage |-> ZOptional(ZString),
     author    |-> ZOptional(ZString)]

baseFields ==
    [title     |-> ZString,
     date      |-> ZOptional(ZString),
     summary   |-> ZOptional(ZString),
     tags      |-> ZDefault(ZArray(ZString), defaultTags),
     heroImage |-> ZOptional(ZString),
     author    |-> ZOptional(ZString)]

\* the keys of baseFields in the order the object literal lists them
shapeOrder == <<"title", "date", "summary", "tags", "heroImage", "author">>

md == [type |-> "content", schema |-> ZObject(baseFields)]

\* a registry whose `team` collection has a schema of its own
collectionsSplit ==
    [explainers |-> md,
     roundups   |-> md,
     actions    |-> md,
     events     |-> md,
     team       |-> [type |-> "content", schema |-> ZObject(baseFieldsNoDefault)]]

collections ==
    [explainers |-> md,
     roundups   |-> md,
     actions    |-> md,
     events     |-> md,
     team       |-> md]

\* the validation of one entry's front-matter against its collection's schema
getEntryData(collection, data) == safeParse(collections[collection].schema, data)

----------------------------------------------------------------------------
(* Front-matter blocks *)

\* a key no field of the schema has (the posts carry `image`, `keywords`, ...)
ExtraKey == "image"

FrontMatter(titles, optionals, tagss, extras) ==
    {ObjectOf([title |-> t, date |-> d, summary |-> s, tags |-> g,
               heroImage |-> h, author |-> a, image |-> x]) :
        t \in titles, d \in optionals, s \in optionals, g \in tagss,
        h \in optionals, a \in optionals, x \in extras}

TagElements == {Str("a"), Str("b"), Num("1")}

\* every shape of front-matter the claims speak of
AllFrontMatter ==
    FrontMatter({Undefined, Str(""), Str("X"), Num("7")},
                {Undefined, Str("2025-11-07"), Date("2025-11-07")},
                {Undefined, Null, Str("not-an-array")}
                    \cup {Arr(xs) : xs \in SeqsUpTo(TagElements, MaxTags)},
                {Undefined, Str("/assets/img/earth_at_night.jpg")})

Docs == {[collection |-> c, data |-> fm] : c \in DOMAIN collections, fm \in AllFrontMatter}

\* the front-matter of a build that validates several files at once
BuildFrontMatter ==
    {EmptyObject,
     [title |-> Str("X")],
     [title |-> Str("X"), tags |-> Arr(<<Str("a"), Str("b")>>)],
     [title |-> Str("X"), tags |-> Str("not-an-array")]}

BuildDocs == {[collection |-> c, data |-> fm] : c \in {"explainers", "team"}, fm \in BuildFrontMatter}

----------------------------------------------------------------------------
(* State *)

NoResult == [status |-> "none", data |-> EmptyObject, issues |-> {}]

Todo == [pc |-> "todo", idx |-> 1, value |-> EmptyObject, issues |-> {}]

InitWith(fs) ==
    /\ files = fs
    /\ task = [d \in DOMAIN fs |-> Todo]
    /\ results = [d \in DOMAIN fs |-> NoResult]

\* one file, any front-matter
Init ==
    /\ defaultTags = <<>>
    /\ \E fs \in [1..1 -> Docs] : InitWith(fs)

\* the whole validation of file d, as the single-threaded build runs it
ValidateEntry(d) ==
    /\ task[d].pc = "todo"
    /\ results' = [results EXCEPT ![d] = getEntryData(files[d].collection, files[d].data)]
    /\ task' = [task EXCEPT ![d].pc = "done"]
    /\ UNCHANGED <<files, defaultTags>>

Next == \E d \in DOMAIN files : ValidateEntry(d)

Spec == Init /\ [][Next]_vars

----------------------------------------------------------------------------
(* The same validation, one schema key at a time, several files in flight *)

InitBuild ==
    /\ defaultTags = <<>>
    /\ \E fs \in [1..MaxDocs -> BuildDocs] : InitWith(fs)

Begin(d) ==
    /\ task[d].pc = "todo"
    /\ task' = [task EXCEPT ![d].pc = "parsing"]
    /\ UNCHANGED <<files, results, defaultTags>>

\* ParseKey with the parsed `tags` kept in the schema's default array
ParseKeyCaching(d) ==
    /\ task[d].pc = "parsing"
    /\ task[d].idx <= Len(shapeOrder)
    /\ LET k == shapeOrder[task[d].idx]
           r == Parse(collections[files[d].collection].schema.shape[k],
                      Get(files[d].data, k))
       IN  /\ task' = [task EXCEPT
                          ![d].idx = @ + 1,
                          ![d].value = @ @@ (k :> r.value),
                          ![d].issues = @ \cup {AtField(k, i) : i \in r.issues}]
           /\ defaultTags' = IF k = "tags" /\ r.value.type = "array"
                             THEN r.value.items
                             ELSE defaultTags
    /\ UNCHANGED <<files, results>>

\* one turn of ZodObject's loop over the keys of the shape
ParseKey(d) ==
    /\ task[d].pc = "parsing"
    /\ task[d].idx <= Len(shapeOrder)
    /\ LET k == shapeOrder[task[d].idx]
           r == Parse(collections[files[d].collection].schema.shape[k],
                      Get(files[d].data, k))
       IN  task' = [task EXCEPT
                       ![d].idx = @ + 1,
                       ![d].value = @ @@ (k :> r.value),
                       ![d].issues = @ \cup {AtField(k, i) : i \in r.issues}]
    /\ UNCHANGED <<files, results, defaultTags>>

\* Finish with a marker pushed onto the default array a tagless file was given
FinishPushing(d) ==
    /\ task[d].pc = "parsing"
    /\ task[d].idx > Len(shapeOrder)
    /\ results' = [results EXCEPT ![d] =
           Outcome(mergeObject(collections[files[d].collection].schema,
                               files[d].data, task[d].value),
                   task[d].issues)]
    /\ task' = [task EXCEPT ![d].pc = "done"]
    /\ defaultTags' = IF "tags" \in DOMAIN files[d].data
                      THEN defaultTags
                      ELSE Append(defaultTags, Str("untagged"))
    /\ UNCHANGED files

\* the merge after the loop: the outcome of the file
Finish(d) ==
    /\ task[d].pc = "parsing"
    /\ task[d].idx > Len(shapeOrder)
    /\ results' = [results EXCEPT ![d] =
           Outcome(mergeObject(collections[files[d].collection].schema,
                               files[d].data, task[d].value),
                   task[d].issues)]
    /\ task' = [task EXCEPT ![d].pc = "done"]
    /\ UNCHANGED <<files, defaultTags>>

NextBuild ==
    \/ \E d \in DOMAIN files : Begin(d)
    \/ \E d \in DOMAIN files : ParseKey(d)
    \/ \E d \in DOMAIN files : Finish(d)

SpecBuild == InitBuild /\ [][NextBuild]_vars

----------------------------------------------------------------------------
(* Properties *)

Done(d) == task[d].pc = "done"

Cites(outcome, k) ==
    outcome.status = "error" /\ \E i \in outcome.issues : i.field = k

NoDocument(outcome) == outcome.status = "error" /\ outcome.data = EmptyObject

IsString(v) == v.type = "string"

IsStringArray(v) ==
    v.type = "array" /\ \A i \in 1..Len(v.items) : v.items[i].type = "string"

Has(data, k) == k \in DOMAIN data

SchemaFields == {"title", "date", "summary", "tags", "heroImage", "author"}

OptionalStrings == {"date", "summary", "heroImage", "author"}

CollectionNames == {"explainers", "roundups", "actions", "events", "team"}

\* the declared type of each field of the schema table
FieldTypeOK(k, v) ==
    IF k = "tags" THEN IsStringArray(v) ELSE IsString(v)

\* C1: a front-matter block whose title is absent or the empty string is
\* rejected with an error citing `title`, and yields no Document
C1_TitleAbsentOrEmptyRejected ==
    \A d \in DOMAIN files :
        (Done(d) /\ (~Has(files[d].data, "title") \/ files[d].data["title"] = Str("")))
            => (Cites(results[d], "title") /\ NoDocument(results[d]))

\* C2: a block that holds only a non-empty string title validates, to a
\* Document with that title, tags = [] and no other field set
C2_TitleOnlyGetsDefaultTags ==
    \A d \in DOMAIN files :
        (/\ Done(d)
         /\ DOMAIN files[d].data = {"title"}
         /\ IsString(files[d].data["title"])
         /\ files[d].data["title"].str # "")
            => (/\ results[d].status = "ok"
                /\ DOMAIN results[d].data = {"title", "tags"}
                /\ results[d].data["title"] = files[d].data["title"]
                /\ results[d].data["tags"] = Arr(<<>>))

C2_Witness ==
    /\ Done(1)
    /\ files[1].data = [title |-> Str("X")]
    /\ results[1].status = "ok"

\* C3: with a valid title, tags present but not an array of strings is
\* rejected with an error citing `tags`; the default is not put in its place
C3_IllTypedTagsRejected ==
    \A d \in DOMAIN files :
        (/\ Done(d)
         /\ Has(files[d].data, "title") /\ IsString(files[d].data["title"])
         /\ Has(files[d].data, "tags") /\ ~IsStringArray(files[d].data["tags"]))
            => (Cites(results[d], "tags") /\ NoDocument(results[d]))

C3_Witness ==
    /\ Done(1)
    /\ files[1].data = [title |-> Str("X"), tags |-> Str("not-an-array")]
    /\ Cites(results[1], "tags")

\* C4: a block that validates keeps its tags exactly: same length, elements
\* and order, duplicates included
C4_TagsKeptExactly ==
    \A d \in DOMAIN files :
        (/\ Done(d)
         /\ results[d].status = "ok"
         /\ Has(files[d].data, "tags"))
            => (/\ Has(results[d].data, "tags")
                /\ results[d].data["tags"].type = "array"
                /\ results[d].data["tags"].items = files[d].data["tags"].items)

C4_Witness ==
    /\ Done(1)
    /\ results[1].status = "ok"
    /\ Has(files[1].data, "tags")
    /\ files[1].data["tags"].items = <<Str("b"), Str("a")>>
    /\ results[1].data["tags"].items = <<Str("b"), Str("a")>>

\* C5: the registry binds exactly the five names, all to one schema, and a
\* block's outcome is the same under every one of the names
C5_OneSchemaForFiveNames ==
    /\ DOMAIN collections = CollectionNames
    /\ LET registry == collections
       IN  \A n \in DOMAIN registry : registry[n] = registry["explainers"]
    /\ \A d \in DOMAIN files :
          Done(d) => \A n \in CollectionNames :
                        getEntryData(n, files[d].data) = results[d]

C5_Witness ==
    /\ Done(1)
    /\ files[1].collection = "explainers"
    /\ results[1].status = "ok"
    /\ getEntryData("team", files[1].data) = results[1]

\* C6: two validations of the same collection name and block give the same
\* outcome, whatever was validated in between, and a tagless block's tags
\* are the empty sequence for every file of the build
C6_SameInputSameOutcome ==
    /\ \A d, e \in DOMAIN files :
          (Done(d) /\ Done(e) /\ files[d] = files[e]) => results[d] = results[e]
    /\ \A d \in DOMAIN files :
          (Done(d) /\ results[d].status = "ok" /\ ~Has(files[d].data, "tags"))
              => results[d].data["tags"] = Arr(<<>>)

C6_Witness ==
    /\ Done(1) /\ Done(2)
    /\ files[1] = files[2]
    /\ ~Has(files[1].data, "tags")
    /\ results[1].status = "ok"
    /\ results[2] = results[1]

\* a step of one file's validation touches that file's task and result only
TouchesOneFile ==
    /\ files' = files
    /\ defaultTags' = defaultTags
    /\ \E d \in DOMAIN files :
          \A e \in DOMAIN files \ {d} : task'[e] = task[e] /\ results'[e] = results[e]

\* every finished file has the outcome its validation alone gives
OutcomeAsAlone ==
    /\ defaultTags = <<>>
    /\ \A d \in DOMAIN files :
          Done(d) => results[d] = getEntryData(files[d].collection, files[d].data)

\* C7: under every interleaving of the files' validations each file ends with
\* the outcome of validating it alone, and no step writes the schema or
\* another file's state
C7_InterleavingIndependent == []OutcomeAsAlone /\ [][TouchesOneFile]_vars

C7_Witness ==
    /\ Done(2)
    /\ results[2].status = "ok"
    /\ ~Has(files[2].data, "tags")
    /\ task[1].pc = "parsing" /\ task[1].idx = 5
    /\ Has(files[1].data, "tags") /\ files[1].data["tags"].type = "array"

\* C8: the outcome is a whole Document whose every field has its declared
\* type, or a rejection with no Document; a valid title with an ill-typed
\* field is a rejection
C8_AllOrNothing ==
    \A d \in DOMAIN files :
        /\ ~Done(d) => results[d] = NoResult
        /\ Done(d) =>
              \/ /\ results[d].status = "ok"
                 /\ results[d].issues = {}
                 /\ {"title", "tags"} \subseteq DOMAIN results[d].data
                 /\ \A k \in DOMAIN results[d].data : FieldTypeOK(k, results[d].data[k])
              \/ /\ NoDocument(results[d])
                 /\ results[d].issues # {}
        /\ (Done(d) /\ \E k \in SchemaFields :
                          Has(files[d].data, k) /\ ~FieldTypeOK(k, files[d].data[k]))
              => NoDocument(results[d])

C8_Witness ==
    /\ Done(1)
    /\ Has(files[1].data, "title") /\ files[1].data["title"] = Str("X")
    /\ Has(files[1].data, "summary") /\ IsString(files[1].data["summary"])
    /\ Has(files[1].data, "author") /\ ~IsString(files[1].data["author"])
    /\ \A k \in SchemaFields \ {"author"} :
          Has(files[1].data, k) => FieldTypeOK(k, files[1].data[k])
    /\ NoDocument(results[1])

\* C9: the keys of a Document are among the six field names of the schema,
\* also when the block carries other keys
C9_KeysWithinSchema ==
    \A d \in DOMAIN files :
        (Done(d) /\ results[d].status = "ok")
            => DOMAIN results[d].data \subseteq SchemaFields

C9_Witness ==
    /\ Done(1)
    /\ Has(files[1].data, ExtraKey)
    /\ results[1].status = "ok"
    /\ ~Has(results[1].data, ExtraKey)

====
